---- MODULE Spec2Model ----
(***************************************************************************)
(* Audio Editor Pro (src/app.py): the Streamlit script as a state machine. *)
(* One step of the model is one run of the script, triggered by one user   *)
(* interaction.  session_state.audio and session_state.edited_audio are    *)
(* the program state; the file the uploader widget holds survives a rerun  *)
(* and is state as well.  The input-method radio only decides which load   *)
(* widget is drawn: switching it away from the uploader drops its file.    *)
(*                                                                         *)
(* Audio buffers are pydub AudioSegments: interleaved signed 16-bit        *)
(* samples, a channel count and a frame rate.  The clips of the model are  *)
(* short and use low frame rates so that a slider step of 0.1 s is a whole *)
(* number of frames; the arithmetic (millisecond rounding, frame           *)
(* positions, rate conversion) is the library's.                           *)
(***************************************************************************)
EXTENDS Integers, Sequences, FiniteSets, TLC

VARIABLES
    audio,          \* st.session_state.audio
    audio_file,     \* st.session_state.audio_file
    edited_audio,   \* st.session_state.edited_audio
    uploaded_file,  \* the file the uploader widget holds (NoFile: empty or not drawn)
    last,           \* the interaction that triggered the last run
    message,        \* st.success / st.error texts shown by the last run
    spectrum,       \* the spectrum figure of the last run, if any
    wave,           \* plot_waveform: its input size and what it plots
    link            \* get_download_link: its input and its outcome

vars == <<audio, audio_file, edited_audio, uploaded_file,
          last, message, spectrum, wave, link>>

(***************************************************************************)
(* Bounds of the model.                                                    *)
(***************************************************************************)
\* Trim sliders are tried at 0, 0.1 s, ..., MaxTrimSteps * 0.1 s and at the maximum.
MaxTrimSteps == 1
\* Fade sliders are tried at 0, 0.1 s, ..., MaxFadeSteps * 0.1 s.
MaxFadeSteps == 2
\* plot_waveform is tried on lengths up to MaxStride * 50000 + MaxSpread.
MaxStride == 3
MaxSpread == 3

(***************************************************************************)
(* Arithmetic helpers.                                                     *)
(***************************************************************************)
Min(a, b) == IF a <= b THEN a ELSE b
Max(a, b) == IF a >= b THEN a ELSE b
Abs(x) == IF x < 0 THEN -x ELSE x

RECURSIVE Pow2(_)
Pow2(k) == IF k <= 0 THEN 1 ELSE 2 * Pow2(k - 1)

RECURSIVE Gcd(_, _)
Gcd(a, b) == IF b = 0 THEN a ELSE Gcd(b, a % b)

\* Python's round(num / den) for num >= 0, den > 0: ties go to the even integer.
RoundHalfEven(num, den) ==
    LET q == num \div den
        r == num % den
    IN  IF 2 * r < den THEN q
        ELSE IF 2 * r > den THEN q + 1
        ELSE IF q % 2 = 0 THEN q ELSE q + 1

\* C's (int) cast and Python's int(): truncation toward zero of num / den, den > 0.
Trunc(num, den) == IF num >= 0 THEN num \div den ELSE -((-num) \div den)

(***************************************************************************)
(* The buffer: a pydub AudioSegment.                                       *)
(***************************************************************************)
None == [samples |-> <<>>, channels |-> 0, frame_rate |-> 0]

Segment(s, ch, rate) == [samples |-> s, channels |-> ch, frame_rate |-> rate]

\* AudioSegment._spawn keeps the metadata and replaces the data.
Spawn(seg, s) == [seg EXCEPT !.samples = s]

\* 16-bit samples: max_possible_amplitude is 2^16 / 2, samples lie in [-2^15, 2^15 - 1].
MaxPossibleAmplitude == Pow2(15)
MinVal == -Pow2(15)
MaxVal == Pow2(15) - 1

FrameCount(seg) == Len(seg.samples) \div seg.channels

\* AudioSegment.__len__: round(1000 * frame_count / frame_rate), in milliseconds.
LenMs(seg) == RoundHalfEven(1000 * FrameCount(seg), seg.frame_rate)

\* get_audio_duration: len(audio) / 1000.0 seconds; the model keeps milliseconds.
get_audio_duration(seg) == LenMs(seg)

\* bool(AudioSegment) is len(segment) != 0: None and a segment shorter than
\* half a millisecond are both falsy.
Truthy(seg) == seg # None /\ LenMs(seg) # 0

\* AudioSegment._parse_position / frame_count(ms): int(ms * frame_rate / 1000.0).
FramesAt(seg, ms) == (ms * seg.frame_rate) \div 1000

\* Frames a+1 .. b of an interleaved sample sequence.
FrameSlice(seg, a, b) ==
    IF b <= a THEN <<>>
    ELSE SubSeq(seg.samples, a * seg.channels + 1, b * seg.channels)

Zeros(n) == [i \in 1..n |-> 0]

\* seg.max: the largest absolute sample value.
PeakOf(seg) ==
    IF seg.samples = <<>> THEN 0
    ELSE LET a == {Abs(seg.samples[i]) : i \in 1..Len(seg.samples)}
         IN  CHOOSE m \in a : \A x \in a : x <= m

\* audioop.mul: every sample times num / den, floored and clipped to the width.
Clip(x) == IF x > MaxVal THEN MaxVal ELSE IF x < MinVal THEN MinVal ELSE x
MulSamples(s, num, den) == [i \in 1..Len(s) |-> Clip((s[i] * num) \div den)]

(***************************************************************************)
(* Decibels.  The model tries levels that are multiples of 6 dB and takes  *)
(* 10^(6/20) = 1.995 as 2, so db_to_float(6 k) is 2^k: DbNum / DbDen.      *)
(***************************************************************************)
DbNum(db) == IF db >= 0 THEN Pow2(db \div 6) ELSE 1
DbDen(db) == IF db >= 0 THEN 1 ELSE Pow2((-db) \div 6)

\* AudioSegment.apply_gain, `segment + dB`: audioop.mul by db_to_float(dB).
apply_gain(seg, db) == Spawn(seg, MulSamples(seg.samples, DbNum(db), DbDen(db)))

(***************************************************************************)
(* AudioSegment.__getitem__ on a slice of milliseconds.                    *)
(***************************************************************************)
\* The frames the slice asks for beyond the data: they are filled with silence.
MissingFrames(seg, start, end) ==
    LET sf == FramesAt(seg, Min(start, LenMs(seg)))
        ef == FramesAt(seg, Min(end, LenMs(seg)))
        got == Len(FrameSlice(seg, Min(sf, FrameCount(seg)), Min(ef, FrameCount(seg))))
                 \div seg.channels
    IN  (ef - sf) - got

\* More than 2 ms of missing frames: pydub raises TooManyMissingFrames.
TooManyMissingFrames(seg, start, end) ==
    MissingFrames(seg, start, end) * 1000 > 2 * seg.frame_rate

GetSlice(seg, start, end) ==
    LET sf == FramesAt(seg, Min(start, LenMs(seg)))
        ef == FramesAt(seg, Min(end, LenMs(seg)))
        data == FrameSlice(seg, Min(sf, FrameCount(seg)), Min(ef, FrameCount(seg)))
        missing == MissingFrames(seg, start, end)
    IN  IF missing > 0 /\ data # <<>>
        THEN Spawn(seg, data \o Zeros(missing * seg.channels))
        ELSE Spawn(seg, data)

(***************************************************************************)
(* Speed change: the data relabelled with another frame rate, then         *)
(* AudioSegment.set_frame_rate back, which resamples with audioop.ratecv.  *)
(***************************************************************************)
Frame(s, ch, i) == [c \in 1..ch |-> s[(i - 1) * ch + c]]

\* audioop.ratecv with no state and weights (1, 0): linear interpolation.
\* i frames are consumed, d is the phase, prev and cur the last two input frames.
RECURSIVE RatecvLoop(_, _, _, _, _, _, _, _, _)
RatecvLoop(s, ch, inrate, outrate, i, d, prev, cur, out) ==
    IF d < 0
    THEN IF i * ch = Len(s)
         THEN out
         ELSE RatecvLoop(s, ch, inrate, outrate, i + 1, d + outrate,
                         cur, Frame(s, ch, i + 1), out)
    ELSE RatecvLoop(s, ch, inrate, outrate, i, d - inrate, prev, cur,
                    out \o [c \in 1..ch |->
                              (prev[c] * d + cur[c] * (outrate - d)) \div outrate])

ratecv(s, ch, inrate, outrate) ==
    LET g == Gcd(inrate, outrate)
    IN  RatecvLoop(s, ch, inrate \div g, outrate \div g, 0, -(outrate \div g),
                   Zeros(ch), Zeros(ch), <<>>)

set_frame_rate(seg, frame_rate) ==
    IF frame_rate = seg.frame_rate THEN seg
    ELSE IF seg.samples # <<>>
         THEN [seg EXCEPT !.samples = ratecv(seg.samples, seg.channels,
                                             seg.frame_rate, frame_rate),
                          !.frame_rate = frame_rate]
         ELSE [seg EXCEPT !.frame_rate = frame_rate]

\* The frame rate the data is relabelled with: int(frame_rate * speed_factor),
\* the factor in tenths.
SpeedRate(frame_rate, speed10) == (frame_rate * speed10) \div 10

\* src/app.py 352-358: _spawn with the frame_rate override, then set_frame_rate.
SpeedChangeNoResample(edited, original_rate, speed10) ==
    [edited EXCEPT !.frame_rate = SpeedRate(edited.frame_rate, speed10)]

SpeedChange(edited, original_rate, speed10) ==
    set_frame_rate([edited EXCEPT !.frame_rate = SpeedRate(edited.frame_rate, speed10)],
                   original_rate)

(***************************************************************************)
(* pydub.effects high_pass_filter / low_pass_filter: one-pole filters run  *)
(* over each channel, the first frame copied.  The model takes the filter  *)
(* coefficient alpha as 1/2 for every cutoff and keeps last_val to integer *)
(* precision.                                                              *)
(***************************************************************************)
RECURSIVE LowPassLoop(_, _, _, _, _)
LowPassLoop(s, ch, i, lastv, out) ==
    IF (i - 1) * ch >= Len(s) THEN out
    ELSE LET nv == [c \in 1..ch |-> Trunc(lastv[c] + Frame(s, ch, i)[c], 2)]
         IN  LowPassLoop(s, ch, i + 1, nv, out \o nv)

low_pass_filter(seg, cutoff) ==
    IF seg.samples = <<>> THEN seg
    ELSE LET first == Frame(seg.samples, seg.channels, 1)
         IN  Spawn(seg, LowPassLoop(seg.samples, seg.channels, 2, first, first))

RECURSIVE HighPassLoop(_, _, _, _, _)
HighPassLoop(s, ch, i, lastv, out) ==
    IF (i - 1) * ch >= Len(s) THEN out
    ELSE LET nv == [c \in 1..ch |->
                      Trunc(lastv[c] + Frame(s, ch, i)[c] - Frame(s, ch, i - 1)[c], 2)]
         IN  HighPassLoop(s, ch, i + 1, nv, out \o [c \in 1..ch |-> Clip(nv[c])])

high_pass_filter(seg, cutoff) ==
    IF seg.samples = <<>> THEN seg
    ELSE LET first == Frame(seg.samples, seg.channels, 1)
         IN  Spawn(seg, HighPassLoop(seg.samples, seg.channels, 2, first, first))

(***************************************************************************)
(* Fades: AudioSegment.fade_in / fade_out, a linear ramp from (to) silence *)
(* over the first (last) `duration` milliseconds, one gain step per frame. *)
(***************************************************************************)
\* Frames first+1 .. first+count of seg, frame first+i+1 scaled by num(i) / den.
RampUp(seg, count, den) ==
    [k \in 1..(count * seg.channels) |->
        LET i == (k - 1) \div seg.channels
        IN  Clip((seg.samples[k] * (1000 * i)) \div den)]

RampDown(seg, first, count, den) ==
    [k \in 1..(count * seg.channels) |->
        LET i == (k - 1) \div seg.channels
        IN  Clip((seg.samples[first * seg.channels + k] * (den - 1000 * i)) \div den)]

fade_in(seg, duration) ==
    LET den == duration * seg.frame_rate
        count == Min(FramesAt(seg, duration), FrameCount(seg))
    IN  Spawn(seg, RampUp(seg, count, den)
                     \o GetSlice(seg, duration, LenMs(seg)).samples)

\* The model's actions try no fade longer than the segment; the start is held
\* at 0 so that the operator is defined for every argument.
fade_out(seg, duration) ==
    LET start == Max(0, LenMs(seg) - duration)
        den == duration * seg.frame_rate
        first == FramesAt(seg, start)
        count == Max(0, Min(FramesAt(seg, duration), FrameCount(seg) - first))
    IN  Spawn(seg, GetSlice(seg, 0, start).samples
                     \o RampDown(seg, first, count, den))

\* src/app.py apply_fade; the durations are whole milliseconds here.
apply_fade(seg, fade_in_duration, fade_out_duration) ==
    LET a == IF fade_in_duration > 0 THEN fade_in(seg, fade_in_duration) ELSE seg
    IN  IF fade_out_duration > 0 THEN fade_out(a, fade_out_duration) ELSE a

(***************************************************************************)
(* pydub.effects.normalize(seg, headroom): the gain that brings the peak   *)
(* to max_possible_amplitude * db_to_float(-headroom).                     *)
(***************************************************************************)
\* One sample times target_peak / peak, floored and clipped; target_peak is
\* MaxPossibleAmplitude * 2^k for headroom = -6 k dB.  A sample that reaches
\* full scale is clipped before the product is formed.
NormalizeSample(x, peak, headroom) ==
    IF headroom <= 0
    THEN IF Abs(x) * DbNum(-headroom) >= peak
         THEN (IF x > 0 THEN MaxVal ELSE MinVal)
         ELSE Clip((x * DbNum(-headroom) * MaxPossibleAmplitude) \div peak)
    ELSE Clip((x * (MaxPossibleAmplitude \div DbDen(-headroom))) \div peak)

normalize(seg, headroom) ==
    LET peak == PeakOf(seg)
    IN  IF peak = 0 THEN seg
        ELSE Spawn(seg, [i \in 1..Len(seg.samples) |->
                            NormalizeSample(seg.samples[i], peak, headroom)])

\* src/app.py apply_normalization: the target level is passed as the headroom.
apply_normalization(seg, target_dBFS) == normalize(seg, target_dBFS)

(***************************************************************************)
(* pydub.effects.compress_dynamic_range, taken sample by sample: what lies *)
(* above the threshold is divided by the ratio.                            *)
(***************************************************************************)
compress_dynamic_range(seg, threshold, ratio) ==
    LET th == (MaxPossibleAmplitude * DbNum(threshold)) \div DbDen(threshold)
    IN  Spawn(seg, [i \in 1..Len(seg.samples) |->
                      LET x == seg.samples[i]
                      IN  IF Abs(x) <= th THEN x
                          ELSE IF x > 0 THEN th + (x - th) \div ratio
                          ELSE -(th + (-x - th) \div ratio)])

(***************************************************************************)
(* The clips a load can produce.  Decoding is external (ffmpeg): a file or *)
(* a URL either decodes to its clip or fails.                              *)
(***************************************************************************)
ClipA == Segment(<<1000, -2000, 4000, -8000>>, 1, 10)
\* 4 frames at 30 Hz are 133.3 ms: the length in milliseconds rounds down.
ClipC == Segment(<<500, 1500, -2500, 3500>>, 1, 30)
\* Digital silence, in stereo.
ClipZ == Segment(<<0, 0, 0, 0>>, 2, 10)
\* 5 stereo frames at 3000 Hz are 1.67 ms: the length in milliseconds rounds up.
ClipY == Segment(<<700, -700, -1400, 900, 2100, 100, -2800, -300, 3500, 0>>, 2, 3000)
\* Sine(440).to_audio_segment(duration=3000): 3 s, mono; 6 frames at 2 Hz here.
SampleTone == Segment(<<0, 16000, 0, -16000, 0, 16000>>, 1, 2)

NoFile == "no file"
Files == {"a.wav", "c.wav", "z.wav"}
Urls == {"https://youtu.be/y", "https://youtu.be/gone"}

Decode(f) ==
    CASE f = "a.wav" -> ClipA
      [] f = "c.wav" -> ClipC
      [] f = "z.wav" -> ClipZ
      [] f = "https://youtu.be/y" -> ClipY
      [] OTHER -> None

\* process_audio_file: (audio, name), or (None, None) after st.error.
process_audio_file(uploaded) ==
    IF Decode(uploaded) # None
    THEN [audio |-> Decode(uploaded), name |-> uploaded, errors |-> {}]
    ELSE [audio |-> None, name |-> "None",
          errors |-> {"Error processing audio file"}]

\* download_from_youtube: (audio, title), or (None, None) after st.error.
download_from_youtube(url) ==
    IF Decode(url) # None
    THEN [audio |-> Decode(url), name |-> "youtube title", errors |-> {}]
    ELSE [audio |-> None, name |-> "None",
          errors |-> {"Error downloading from YouTube"}]

(***************************************************************************)
(* The sidebar, run at the top of every run of the script (233-255): with  *)
(* a file in the uploader the file is decoded and stored again in every    *)
(* run; a YouTube download happens in the run of its button (url is NoFile *)
(* in any other run, and the uploader is not drawn then).                  *)
(***************************************************************************)
Sidebar(file, url, aud, afile) ==
    LET got == IF url = NoFile THEN process_audio_file(file)
               ELSE download_from_youtube(url)
        asked == file # NoFile \/ url # NoFile
    IN  IF asked /\ got.audio # None
        THEN [audio |-> got.audio, audio_file |-> got.name, errors |-> {}]
        ELSE [audio |-> aud, audio_file |-> afile,
              errors |-> IF asked THEN got.errors ELSE {}]

\* The sidebar of a run in which no load widget was touched.
Side == Sidebar(uploaded_file, NoFile, audio, audio_file)

(***************************************************************************)
(* The handlers of the editing buttons.  Each takes `audio`, the local     *)
(* bound to st.session_state.audio at line 277, and the edited buffer as   *)
(* it is, and gives the session state and the message it leaves.           *)
(***************************************************************************)
Outcome(aud, ed, msg) == [audio |-> aud, edited_audio |-> ed, message |-> msg]

TrimError == "Start time must be less than end time"

\* src/app.py 305-310.
ApplyTrimInPlace(aud, ed, start_time, end_time) ==
    IF start_time < end_time
    THEN Outcome(GetSlice(aud, start_time, end_time), ed, "Audio trimmed")
    ELSE Outcome(aud, ed, TrimError)

ApplyTrimNoCheck(aud, ed, start_time, end_time) ==
    Outcome(aud, GetSlice(aud, start_time, end_time),
            IF start_time < end_time THEN "Audio trimmed" ELSE TrimError)

ApplyTrim(aud, ed, start_time, end_time) ==
    IF start_time < end_time
    THEN IF TooManyMissingFrames(aud, start_time, end_time)
         THEN Outcome(aud, ed, "TooManyMissingFrames")
         ELSE Outcome(aud, GetSlice(aud, start_time, end_time), "Audio trimmed")
    ELSE Outcome(aud, ed, TrimError)

\* src/app.py 346-364: the four stages, each behind its own condition.
GainStage(edited, volume_change) ==
    IF volume_change # 0 THEN apply_gain(edited, volume_change) ELSE edited

SpeedStage(edited, original_rate, speed10) ==
    IF speed10 # 10 THEN SpeedChange(edited, original_rate, speed10) ELSE edited

HighPassAlways(edited, hp_freq) == high_pass_filter(edited, hp_freq)

HighPassStage(edited, hp_freq) ==
    IF hp_freq > 20 THEN high_pass_filter(edited, hp_freq) ELSE edited

LowPassStage(edited, lp_freq) ==
    IF lp_freq < 20000 THEN low_pass_filter(edited, lp_freq) ELSE edited

\* src/app.py 343-367.
ApplyEffects(aud, volume_change, speed10, hp_freq, lp_freq) ==
    LET e1 == GainStage(aud, volume_change)
        e2 == SpeedStage(e1, aud.frame_rate, speed10)
        e3 == HighPassStage(e2, hp_freq)
        e4 == LowPassStage(e3, lp_freq)
    IN  Outcome(aud, e4, "Effects applied successfully!")

\* src/app.py 389-397.
ApplyNormalization(aud, target_level, compression, threshold, ratio) ==
    LET n == apply_normalization(aud, target_level)
        e == IF compression THEN compress_dynamic_range(n, threshold, ratio) ELSE n
    IN  Outcome(aud, e, "Normalization applied successfully!")

\* src/app.py 416-419.
ApplyFade(aud, fade_in_ms, fade_out_ms) ==
    Outcome(aud, apply_fade(aud, fade_in_ms, fade_out_ms), "Fade applied!")

(***************************************************************************)
(* The spectrum of the Visualize tab (430-445): the FFT of the first 44100 *)
(* samples, the lower half of its bins, bin k labelled by                  *)
(* np.fft.fftfreq(n, 1/44100)[k] = k * 44100 / n.                          *)
(***************************************************************************)
FftWindow == 44100
FftRate == 44100

NoSpectrum == [window |-> <<>>, freq |-> <<>>]

\* current_audio / display_audio: the edited buffer if it is truthy.
CurrentAudio(aud, ed) == IF Truthy(ed) THEN ed ELSE aud

Spectrum(current) ==
    LET samples == current.samples
        window == SubSeq(samples, 1, Min(Len(samples), FftWindow))
        n == Len(window)
    IN  IF Len(samples) > 0
        THEN [window |-> window,
              freq |-> [j \in 1..(n \div 2) |-> [num |-> (j - 1) * FftRate, den |-> n]]]
        ELSE NoSpectrum

(***************************************************************************)
(* plot_waveform (94-105): the samples, channel-averaged, thinned to every *)
(* step-th one when there are more than 50000.                             *)
(***************************************************************************)
PlotLimit == 50000

\* len(samples[::step]): the indices 0, step, 2 step, ... below n.
StrideLen(n, step) == (n + step - 1) \div step

\* What the plot holds for a buffer of `frames` frames.
plot_waveform(frames, channels) ==
    LET n == frames   \* after reshape((-1, 2)).mean(axis=1) for stereo
    IN  IF n > PlotLimit
        THEN [frames |-> frames, channels |-> channels,
              step |-> n \div PlotLimit,
              points |-> StrideLen(n, n \div PlotLimit)]
        ELSE [frames |-> frames, channels |-> channels, step |-> 1, points |-> n]

NoWave == [frames |-> 0, channels |-> 0, step |-> 0, points |-> 0]

(***************************************************************************)
(* get_download_link (198-217): the export and the link built from it.     *)
(***************************************************************************)
NoLink == [status |-> "none"]

Exported(seg, filename, codec, bitrate, mime_type) ==
    [status |-> "ok", mime_type |-> mime_type, file_ext |-> codec,
     data |-> [codec |-> codec, bitrate |-> bitrate, audio |-> seg],
     download |-> <<filename, codec>>]

get_download_link_with_ogg(seg, filename, format) ==
    IF format = "mp3" THEN Exported(seg, filename, "mp3", "192k", "audio/mpeg")
    ELSE IF format = "wav" THEN Exported(seg, filename, "wav", "", "audio/wav")
    ELSE IF format = "ogg" THEN Exported(seg, filename, "ogg", "", "audio/ogg")
    ELSE [status |-> "UnboundLocalError"]

get_download_link(seg, filename, format) ==
    IF format = "mp3" THEN Exported(seg, filename, "mp3", "192k", "audio/mpeg")
    ELSE IF format = "wav" THEN Exported(seg, filename, "wav", "", "audio/wav")
    \* Neither branch ran: mime_type is unbound when the link is formatted.
    ELSE [status |-> "UnboundLocalError"]

\* The formats the selectbox offers (486-489).
FormatChoices == {"mp3", "wav"}

(***************************************************************************)
(* The values the widgets are tried at.                                    *)
(***************************************************************************)
\* Sliders 0.0 .. duration in steps of 0.1 s (292-303), in milliseconds.
TrimSliderValues(duration) ==
    {v \in {100 * k : k \in 0..MaxTrimSteps} : v <= duration} \cup {duration}
\* -20 .. 20 dB (319-322).
VolumeValues == {-6, 0, 6}
\* 0.5 .. 2.0 (325-328), in tenths.
SpeedValues == {5, 10, 15, 20}
\* 20 .. 5000 Hz (332-335) and 100 .. 20000 Hz (338-341).
HpValues == {20, 1000}
LpValues == {1000, 20000}
\* -30 .. -5 dBFS (372-375).
TargetLevels == {-18, -6}
\* The compression sliders (380-387), read only with the checkbox set.
CompressionSettings ==
    {<<FALSE, 0, 1>>, <<TRUE, -12, 4>>}
\* 0 .. 10 s (405-414), in milliseconds.
FadeValues == {100 * k : k \in 0..MaxFadeSteps}

Event(op, args) == [op |-> op, args |-> args]

EditOps == {"trim", "effects", "normalize", "fade"}
LoadOps == {"upload", "youtube", "sample"}

(***************************************************************************)
(* Init: the session state as lines 81-88 leave it, the uploader empty.    *)
(***************************************************************************)
Init ==
    /\ audio = None
    /\ audio_file = "None"
    /\ edited_audio = None
    /\ uploaded_file = NoFile
    /\ last = Event("start", <<>>)
    /\ message = {}
    /\ spectrum = NoSpectrum
    /\ wave = NoWave
    /\ link = NoLink

\* What a run leaves when its sidebar gave `side` and its button handler `r`.
Finish(side, r, ev) ==
    /\ audio' = r.audio
    /\ audio_file' = side.audio_file
    /\ edited_audio' = r.edited_audio
    /\ message' = side.errors \cup (IF r.message = "" THEN {} ELSE {r.message})
    /\ last' = ev
    /\ spectrum' = NoSpectrum
    /\ UNCHANGED <<wave, link>>

(***************************************************************************)
(* The load interactions.                                                  *)
(***************************************************************************)
\* 234-245: a file is put into the uploader.
UploadFile ==
    \E f \in Files :
        /\ f # uploaded_file
        /\ uploaded_file' = f
        /\ LET side == Sidebar(f, NoFile, audio, audio_file)
           IN  Finish(side, Outcome(side.audio, edited_audio, ""),
                      Event("upload", <<f>>))

\* The file is taken out of the uploader: nothing is loaded, nothing is dropped.
RemoveFile ==
    /\ uploaded_file # NoFile
    /\ uploaded_file' = NoFile
    /\ LET side == Sidebar(NoFile, NoFile, audio, audio_file)
       IN  Finish(side, Outcome(side.audio, edited_audio, ""),
                  Event("remove_file", <<>>))

\* 248-255: "Download from YouTube" with a URL typed in; the radio is on
\* "YouTube URL" and the uploader is not drawn.
DownloadFromYouTube ==
    \E u \in Urls :
        /\ uploaded_file' = NoFile
        /\ LET side == Sidebar(NoFile, u, audio, audio_file)
           IN  Finish(side, Outcome(side.audio, edited_audio, ""),
                      Event("youtube", <<u>>))

\* 536-545: the welcome screen's button; st.rerun() runs the script again,
\* sidebar first.
TrySampleAudio ==
    /\ Side.audio = None
    /\ UNCHANGED uploaded_file
    /\ LET again == Sidebar(uploaded_file, NoFile, SampleTone, "sample_tone")
       IN  Finish(again, Outcome(again.audio, edited_audio, ""),
                  Event("sample", <<>>))

(***************************************************************************)
(* The editing interactions: the main interface is drawn, and its buttons  *)
(* exist, only with st.session_state.audio set (276).                      *)
(***************************************************************************)
ClickApplyTrim ==
    /\ Side.audio # None
    /\ UNCHANGED uploaded_file
    /\ \E start_time, end_time \in TrimSliderValues(get_audio_duration(Side.audio)) :
          Finish(Side, ApplyTrim(Side.audio, edited_audio, start_time, end_time),
                 Event("trim", <<start_time, end_time>>))

ClickApplyEffects ==
    /\ Side.audio # None
    /\ UNCHANGED uploaded_file
    /\ \E v \in VolumeValues, s \in SpeedValues, hp \in HpValues, lp \in LpValues :
          Finish(Side, ApplyEffects(Side.audio, v, s, hp, lp),
                 Event("effects", <<v, s, hp, lp>>))

ClickApplyNormalization ==
    /\ Side.audio # None
    /\ UNCHANGED uploaded_file
    /\ \E target \in TargetLevels, c \in CompressionSettings :
          Finish(Side, ApplyNormalization(Side.audio, target, c[1], c[2], c[3]),
                 Event("normalize", <<target, c[1], c[2], c[3]>>))

\* The fades tried are those that fit in the clip.
ClickApplyFade ==
    /\ Side.audio # None
    /\ UNCHANGED uploaded_file
    /\ \E fi, fo \in FadeValues :
          /\ fi <= LenMs(Side.audio)
          /\ fo <= LenMs(IF fi > 0 THEN fade_in(Side.audio, fi) ELSE Side.audio)
          /\ Finish(Side, ApplyFade(Side.audio, fi, fo), Event("fade", <<fi, fo>>))

\* 505-507: the edited buffer is dropped and the script runs again.
ResetAllEdits ==
    /\ Side.audio # None
    /\ UNCHANGED uploaded_file
    /\ Finish(Side, Outcome(Side.audio, None, ""), Event("reset", <<>>))

\* 430-445: the spectrum of current_audio (425) is drawn in this run.
GenerateSpectrum ==
    /\ Side.audio # None
    /\ audio' = Side.audio
    /\ audio_file' = Side.audio_file
    /\ message' = Side.errors
    /\ last' = Event("spectrum", <<>>)
    /\ spectrum' = Spectrum(CurrentAudio(Side.audio, edited_audio))
    /\ UNCHANGED <<edited_audio, uploaded_file, wave, link>>

Next ==
    \/ UploadFile
    \/ RemoveFile
    \/ DownloadFromYouTube
    \/ TrySampleAudio
    \/ ClickApplyTrim
    \/ ClickApplyEffects
    \/ ClickApplyNormalization
    \/ ClickApplyFade
    \/ ResetAllEdits
    \/ GenerateSpectrum

Spec == Init /\ [][Next]_vars

(***************************************************************************)
(* plot_waveform on its own: the frame count and channel count are drawn   *)
(* by Init, the action plots.                                              *)
(***************************************************************************)
PlotOffsets ==
    (0..MaxSpread) \cup {PlotLimit - 1 - i : i \in 0..MaxSpread}
                   \cup {PlotLimit \div 2 + i : i \in 0..MaxSpread}
PlotLengths == {q * PlotLimit + r : q \in 0..MaxStride, r \in PlotOffsets}

InitPlot ==
    /\ audio = None
    /\ audio_file = "None"
    /\ edited_audio = None
    /\ uploaded_file = NoFile
    /\ last = Event("start", <<>>)
    /\ message = {}
    /\ spectrum = NoSpectrum
    /\ link = NoLink
    /\ wave \in {[frames |-> n, channels |-> c, step |-> 0, points |-> -1] :
                    n \in PlotLengths, c \in {1, 2}}

PlotWaveform ==
    /\ wave.points = -1
    /\ wave' = plot_waveform(wave.frames, wave.channels)
    /\ UNCHANGED <<audio, audio_file, edited_audio, uploaded_file, last, message,
                   spectrum, link>>

SpecPlot == InitPlot /\ [][PlotWaveform]_vars

(***************************************************************************)
(* get_download_link on its own: the buffer, the file name and the format  *)
(* are drawn by Init, the action exports.                                  *)
(***************************************************************************)
ExportFormats == {"mp3", "wav", "ogg", "flac"}
ExportBuffers ==
    {ClipA, ClipC, ClipZ, ClipY, SampleTone}
        \cup {GetSlice(ClipA, s, e) : s \in {0, 100}, e \in {200, 300}}
ExportNames == {"a_edited", "a_edited_original"}

InitExport ==
    /\ audio = None
    /\ audio_file = "None"
    /\ edited_audio = None
    /\ uploaded_file = NoFile
    /\ last = Event("start", <<>>)
    /\ message = {}
    /\ spectrum = NoSpectrum
    /\ wave = NoWave
    /\ link \in {[status |-> "asked", audio |-> a, filename |-> n, format |-> f] :
                    a \in ExportBuffers, n \in ExportNames, f \in ExportFormats}

GetDownloadLink ==
    /\ link.status = "asked"
    /\ link' = [status |-> "done", audio |-> link.audio, filename |-> link.filename,
                format |-> link.format,
                result |-> get_download_link(link.audio, link.filename, link.format)]
    /\ UNCHANGED <<audio, audio_file, edited_audio, uploaded_file, last, message,
                   spectrum, wave>>

SpecExport == InitExport /\ [][GetDownloadLink]_vars

(***************************************************************************)
(* Properties.                                                             *)
(***************************************************************************)
Succeeded(ev) ==
    /\ ev.op \in EditOps
    /\ ev.op = "trim" => ev.args[1] < ev.args[2]

\* The operation of an editing event, applied to a buffer.
ApplyEvent(ev, buf) ==
    CASE ev.op = "trim" ->
            ApplyTrim(buf, None, ev.args[1], ev.args[2]).edited_audio
      [] ev.op = "effects" ->
            ApplyEffects(buf, ev.args[1], ev.args[2], ev.args[3], ev.args[4]).edited_audio
      [] ev.op = "normalize" ->
            ApplyNormalization(buf, ev.args[1], ev.args[2], ev.args[3],
                               ev.args[4]).edited_audio
      [] ev.op = "fade" ->
            ApplyFade(buf, ev.args[1], ev.args[2]).edited_audio

\* C1: no editing action (Apply Trim, Apply Effects, Apply Normalization,
\* Apply Fade, Reset All Edits) changes session_state.audio: a run leaves it
\* the buffer it was, and only a load (upload, YouTube download, sample tone)
\* replaces it.
C1_OriginalUntouched ==
    [][/\ last'.op \in EditOps \cup {"reset"} => audio' = audio
       /\ audio' # audio => last'.op \in LoadOps]_vars

\* An edit has produced an edited buffer that differs from the original.
C1_Witness ==
    /\ last.op \in EditOps
    /\ audio # None
    /\ edited_audio # None
    /\ edited_audio # audio

\* C2: Apply Trim with start_time >= end_time shows "Start time must be less
\* than end time" and leaves session_state.audio and
\* session_state.edited_audio as they were.
C2_BadRangeChangesNothing ==
    [][(last'.op = "trim" /\ last'.args[1] >= last'.args[2]) =>
          /\ audio' = audio
          /\ edited_audio' = edited_audio
          /\ TrimError \in message']_vars

\* A trim with start >= end was refused while an edited buffer was held.
C2_Witness ==
    /\ last.op = "trim"
    /\ last.args[1] >= last.args[2]
    /\ TrimError \in message
    /\ edited_audio # None
    /\ edited_audio # audio

\* C3: editing operations compose: an operation B applied right after an
\* operation A (no reset, no load in between) leaves B(A(original)) as the
\* edited buffer.
C3_EditsCompose ==
    [][(Succeeded(last) /\ Succeeded(last')) =>
          edited_audio' = ApplyEvent(last', edited_audio)]_vars

\* C4: Apply Normalization to target level L dBFS, without compression, leaves
\* an edited buffer whose peak is L dBFS below full scale (to within one
\* quantisation step), and leaves an all-zero buffer as it is.
C4_PeakAtTarget ==
    (last.op = "normalize" /\ ~last.args[2]) =>
        IF PeakOf(audio) = 0
        THEN edited_audio = audio
        ELSE Abs(PeakOf(edited_audio) * DbDen(last.args[1])
                   - MaxPossibleAmplitude * DbNum(last.args[1]))
                <= DbDen(last.args[1])

\* C5: the plotted waveform has at most 50000 points: beyond 50000 frames the
\* samples are taken at stride n // 50000, first sample of each stride kept,
\* and the number kept never exceeds 50000.
C5_AtMostMaxPoints ==
    wave.points # -1 =>
        /\ wave.frames > PlotLimit => wave.step = wave.frames \div PlotLimit
        /\ wave.points <= PlotLimit

C7_TrimIsExactRange ==
    (/\ last.op = "trim"
     /\ last.args[1] < last.args[2]
     /\ last.args[2] <= get_audio_duration(audio)) =>
        /\ edited_audio.channels = audio.channels
        /\ edited_audio.frame_rate = audio.frame_rate
        /\ \E a \in 0..FrameCount(audio) :
              /\ a + FrameCount(edited_audio) <= FrameCount(audio)
              /\ edited_audio.samples =
                     FrameSlice(audio, a, a + FrameCount(edited_audio))
        /\ get_audio_duration(edited_audio) = last.args[2] - last.args[1]
        /\ (last.args[1] = 0 /\ last.args[2] = get_audio_duration(audio)) =>
              edited_audio = audio

\* C8: Apply Effects with volume 0 dB, speed 1.0, high-pass 20 Hz and low-pass
\* 20000 Hz stores the original buffer, and each stage is skipped when its own
\* parameter is at that value, whatever the other three are.
C8_NoOpEffects ==
    last.op = "effects" =>
        LET v == last.args[1]
            s == last.args[2]
            hp == last.args[3]
            lp == last.args[4]
            rate == audio.frame_rate
        IN  /\ (v = 0 /\ s = 10 /\ hp = 20 /\ lp = 20000) => edited_audio = audio
            /\ v = 0 => edited_audio =
                  LowPassStage(HighPassStage(SpeedStage(audio, rate, s), hp), lp)
            /\ s = 10 => edited_audio =
                  LowPassStage(HighPassStage(GainStage(audio, v), hp), lp)
            /\ hp = 20 => edited_audio =
                  LowPassStage(SpeedStage(GainStage(audio, v), rate, s), lp)
            /\ lp = 20000 => edited_audio =
                  HighPassStage(SpeedStage(GainStage(audio, v), rate, s), hp)

\* Effects were applied with every parameter at its no-op value to a clip
\* that is not silent.
C8_Witness ==
    /\ last = Event("effects", <<0, 10, 20, 20000>>)
    /\ PeakOf(audio) > 0
    /\ edited_audio = audio

C10_SpectrumLabels ==
    spectrum # NoSpectrum =>
        LET cur == CurrentAudio(audio, edited_audio)
            n == Min(Len(cur.samples), FftWindow)
        IN  /\ spectrum.window = SubSeq(cur.samples, 1, n)
            /\ Len(spectrum.freq) = n \div 2
            /\ \A j \in 1..Len(spectrum.freq) :
                  spectrum.freq[j].num * n =
                      (j - 1) * cur.frame_rate * spectrum.freq[j].den

\* C11: whenever session_state.edited_audio is set, it is the result of an
\* editing action (trim, effects, normalization or fade) applied to the
\* current session_state.audio: after a new upload, YouTube download or
\* sample-tone load no edit of a previously loaded clip is left to preview
\* or download.
C11_EditedBelongsToOriginal ==
    edited_audio # None =>
        \/ \E s, e \in TrimSliderValues(get_audio_duration(audio)) :
              /\ s < e
              /\ edited_audio = ApplyTrim(audio, None, s, e).edited_audio
        \/ \E v \in VolumeValues, s \in SpeedValues, hp \in HpValues, lp \in LpValues :
              edited_audio = ApplyEffects(audio, v, s, hp, lp).edited_audio
        \/ \E target \in TargetLevels, c \in CompressionSettings :
              edited_audio =
                  ApplyNormalization(audio, target, c[1], c[2], c[3]).edited_audio
        \/ \E fi, fo \in FadeValues :
              /\ fi <= LenMs(audio)
              /\ fo <= LenMs(IF fi > 0 THEN fade_in(audio, fi) ELSE audio)
              /\ edited_audio = ApplyFade(audio, fi, fo).edited_audio
====
